---- MODULE Spec2Model ----
(***************************************************************************)
(* Logic Circuit Playground (src/src/App.tsx): the boolean expression      *)
(* engine (safeEvaluate = quick validity checks, toRPN, evalRPN), the      *)
(* usedVars / truthTable memos, and the App state they are computed from.  *)
(***************************************************************************)
EXTENDS Integers, Sequences, FiniteSets, TLC

VARIABLES tokens, env, showTable

vars == <<tokens, env, showTable>>

(* ----------------------------- bounds ---------------------------------- *)

\* Longest token sequence the expression lane is filled to.
MaxTokens == 4

\* Longest well-formed expression drawn as an input of SpecExpr.
MaxExprLen == 7

(* -------------------------- token helpers ------------------------------ *)

VARS == <<"A", "B", "C", "TRUE", "FALSE">>

OPS == <<"&&", "||", "!">>

VarToken(v) == [type |-> "VAR", value |-> v]

OpToken(o) == [type |-> "OP", value |-> o]

LPAREN == [type |-> "LPAREN"]

RPAREN == [type |-> "RPAREN"]

Range(s) == {s[i] : i \in 1..Len(s)}

\* The tokens the palette offers (one Chip per VARS, per OPS, "(" and ")").
Palette ==
  {VarToken(v) : v \in Range(VARS)} \cup {OpToken(o) : o \in Range(OPS)}
    \cup {LPAREN, RPAREN}

\* t.type of a possibly undefined token (tokens[i - 1], tokens[i + 1]).
UNDEFINED == [type |-> "undefined"]

\* tokens[i] with JavaScript's 0-based index; undefined out of range.
At(toks, i) == IF i >= 0 /\ i < Len(toks) THEN toks[i + 1] ELSE UNDEFINED

\* t?.value: undefined for a token without a value field.
ValueOf(t) == IF t.type \in {"VAR", "OP"} THEN t.value ELSE "undefined"

isOperator(t) == t.type = "OP"

isPrefixUnary(t) == t.type = "OP" /\ t.value = "!"

(* --------------------- shunting-yard to RPN ---------------------------- *)

precedence(o) == CASE o = "!" -> 3 [] o = "&&" -> 2 [] o = "||" -> 1

rightAssociative == {"!"}

Throw(msg) == [ok |-> FALSE, error |-> msg]

Return(v) == [ok |-> TRUE, val |-> v]

Top(stack) == stack[Len(stack)]

Pop(stack) == SubSeq(stack, 1, Len(stack) - 1)

\* A mutant of ShouldPop: AND and OR are popped whatever their precedence.
ShouldPopNoPrecedence(o1, o2) ==
  /\ o2 # "undefined"
  /\ \/ o1 \in rightAssociative /\ precedence(o1) < precedence(o2)
     \/ o1 \notin rightAssociative

\* The condition of the operator loop: o2 is the value of the stack's top,
\* undefined when the top is the "(" marker.
ShouldPop(o1, o2) ==
  /\ o2 # "undefined"
  /\ \/ o1 \in rightAssociative /\ precedence(o1) < precedence(o2)
     \/ o1 \notin rightAssociative /\ precedence(o1) <= precedence(o2)

\* The while loop run for an operator token o1: [output, stack] after it.
RECURSIVE PopOperators(_, _, _)
PopOperators(o1, output, stack) ==
  IF Len(stack) > 0 /\ ShouldPop(o1, ValueOf(Top(stack)))
  THEN PopOperators(o1, Append(output, Top(stack)), Pop(stack))
  ELSE [output |-> output, stack |-> stack]

\* A mutant of IsLeftMarker: the wrong parenthesis is taken for the marker.
IsLeftMarkerWrongParen(top) == top.type = "RPAREN"

\* (top as ParenToken).type === "LPAREN"
IsLeftMarker(top) == top.type = "LPAREN"

\* A mutant of EmitOperand: the operand is put in front of the output.
EmitOperandInFront(output, t) == <<t>> \o output

\* output.push(t) for a VAR token.
EmitOperand(output, t) == Append(output, t)

\* A mutant of RParenStep: the "(" marker is sent to the output too.
RParenStepKeepsMarker(top, output) == Append(output, top)

\* What the ")" loop does with a popped entry that is the "(" marker: the
\* marker is discarded, the output stays as it is.
RParenStep(top, output) == output

\* The while loop run for ")": pop to the output until the "(" marker.
RECURSIVE PopToLeft(_, _)
PopToLeft(output, stack) ==
  IF Len(stack) = 0
  THEN [foundLeft |-> FALSE, output |-> output, stack |-> stack]
  ELSE IF IsLeftMarker(Top(stack))
       THEN [foundLeft |-> TRUE, output |-> RParenStep(Top(stack), output),
             stack |-> Pop(stack)]
       ELSE PopToLeft(Append(output, Top(stack)), Pop(stack))

\* The final while loop: pop everything left; a "(" marker left is an error.
RECURSIVE Drain(_, _)
Drain(output, stack) ==
  IF Len(stack) = 0
  THEN Return(output)
  ELSE IF IsLeftMarker(Top(stack))
       THEN Throw("Mismatched parentheses")
       ELSE Drain(Append(output, Top(stack)), Pop(stack))

\* The for loop of toRPN from 0-based index i on. The loop reads tokens[i]
\* and writes only its own output and stack.
RECURSIVE ToRPNFrom(_, _, _, _)
ToRPNFrom(toks, i, output, stack) ==
  IF i >= Len(toks)
  THEN Drain(output, stack)
  ELSE LET t == At(toks, i) IN
       CASE t.type = "VAR" -> ToRPNFrom(toks, i + 1, EmitOperand(output, t), stack)
         [] t.type = "OP" ->
              LET p == PopOperators(t.value, output, stack) IN
              ToRPNFrom(toks, i + 1, p.output, Append(p.stack, t))
         [] t.type = "LPAREN" -> ToRPNFrom(toks, i + 1, output, Append(stack, t))
         [] t.type = "RPAREN" ->
              LET p == PopToLeft(output, stack) IN
              IF ~p.foundLeft
              THEN Throw("Mismatched parentheses")
              ELSE ToRPNFrom(toks, i + 1, p.output, p.stack)

\* toRPN(tokens): Return(postfix sequence) or Throw("Mismatched parentheses").
toRPN(toks) == ToRPNFrom(toks, 0, <<>>, <<>>)

(* --------------------------- evalRPN ----------------------------------- *)

\* The value pushed for a VAR token.
Operand(v, e) ==
  IF v = "TRUE" THEN TRUE ELSE IF v = "FALSE" THEN FALSE ELSE e[v]

\* A mutant of PushOperand: only a true value is pushed.
PushOperandIfTrue(st, v, e) == IF Operand(v, e) THEN Append(st, TRUE) ELSE st

\* st.push(...) for a VAR token.
PushOperand(st, v, e) == Append(st, Operand(v, e))

RECURSIVE EvalFrom(_, _, _, _)
EvalFrom(rpn, k, e, st) ==
  IF k > Len(rpn)
  THEN IF Len(st) # 1 THEN Throw("Incomplete expression") ELSE Return(st[1])
  ELSE LET t == rpn[k] IN
       IF t.type = "VAR"
       THEN EvalFrom(rpn, k + 1, e, PushOperand(st, t.value, e))
       ELSE LET op == ValueOf(t) IN
            CASE op = "!" ->
                   IF Len(st) < 1
                   THEN Throw("Invalid unary operator placement")
                   ELSE EvalFrom(rpn, k + 1, e, Append(Pop(st), ~Top(st)))
              [] op = "&&" ->
                   IF Len(st) < 2
                   THEN Throw("Invalid AND placement")
                   ELSE LET b == Top(st)
                            a == Top(Pop(st))
                        IN EvalFrom(rpn, k + 1, e, Append(Pop(Pop(st)), a /\ b))
              [] op = "||" ->
                   IF Len(st) < 2
                   THEN Throw("Invalid OR placement")
                   ELSE LET b == Top(st)
                            a == Top(Pop(st))
                        IN EvalFrom(rpn, k + 1, e, Append(Pop(Pop(st)), a \/ b))
              [] OTHER -> Throw("Unknown operator")

evalRPN(rpn, e) == EvalFrom(rpn, 1, e, <<>>)

(* -------------------------- safeEvaluate ------------------------------- *)

\* A mutant of MissingAfterOperand: only VAR VAR is flagged.
MissingAfterOperandVarOnly(t, next) == t.type = "VAR" /\ next.type = "VAR"

\* First check of the scan: an operand followed by an operand or "(".
MissingAfterOperand(t, next) ==
  t.type = "VAR" /\ (next.type = "VAR" \/ next.type = "LPAREN")

\* Second check: ")" followed by an operand or "(".
MissingAfterRParen(t, next) ==
  t.type = "RPAREN" /\ (next.type = "VAR" \/ next.type = "LPAREN")

\* Third check: a binary operator at the start or at the end.
BinaryAtEdge(t, prev, next) ==
  t.type = "OP" /\ t.value # "!" /\ (prev = UNDEFINED \/ next = UNDEFINED)

\* Fourth check: a binary operator after an operator or "(".
BinaryAfterOperator(t, prev) ==
  t.type = "OP" /\ t.value # "!" /\ (isOperator(prev) \/ prev.type = "LPAREN")

\* Fifth check: "!" followed by a binary operator.
UnaryBeforeBinary(t, next) ==
  isPrefixUnary(t) /\ next.type = "OP" /\ next.value # "!"

\* The error the checks throw at 0-based index i, "" when none does.
CheckAt(toks, i) ==
  LET t == At(toks, i)
      prev == At(toks, i - 1)
      next == At(toks, i + 1)
  IN CASE MissingAfterOperand(t, next) -> "Missing operator between operands"
       [] MissingAfterRParen(t, next) -> "Missing operator between ) and next token"
       [] BinaryAtEdge(t, prev, next) -> "Binary operator needs operands on both sides"
       [] BinaryAfterOperator(t, prev) -> "Binary operator cannot follow an operator or ("
       [] UnaryBeforeBinary(t, next) -> "! must be followed by an operand or ("
       [] OTHER -> ""

\* The scan of safeEvaluate from index i on: the first error, "" when none.
RECURSIVE ScanFrom(_, _)
ScanFrom(toks, i) ==
  IF i >= Len(toks) THEN ""
  ELSE LET thrown == CheckAt(toks, i) IN
       IF thrown # "" THEN thrown ELSE ScanFrom(toks, i + 1)

safeEvaluate(toks, e) ==
  IF Len(toks) = 0 THEN Throw("Empty expression")
  ELSE LET thrown == ScanFrom(toks, 0) IN
       IF thrown # "" THEN Throw(thrown)
       ELSE LET rpn == toRPN(toks) IN
            IF ~rpn.ok THEN rpn ELSE evalRPN(rpn.val, e)

(* ----------------------------- App state ------------------------------- *)

INPUTS == <<"A", "B", "C">>

Envs == [Range(INPUTS) -> BOOLEAN]

\* const result = useMemo(...): { ok: true, val } or { ok: false, error }.
result == safeEvaluate(tokens, env)

(* ------------------------ usedVars, truthTable ------------------------- *)

\* The String order Array.prototype.sort() uses, on the names it sorts here.
CharCode(v) == CASE v = "A" -> 65 [] v = "B" -> 66 [] v = "C" -> 67

\* new Set<string>() filled by tokens.forEach: the distinct names among
\* A, B, C in order of first occurrence.
RECURSIVE SeenFrom(_, _, _)
SeenFrom(toks, i, s) ==
  IF i >= Len(toks) THEN s
  ELSE LET t == At(toks, i) IN
       IF t.type = "VAR" /\ t.value \in Range(INPUTS) /\ t.value \notin Range(s)
       THEN SeenFrom(toks, i + 1, Append(s, t.value))
       ELSE SeenFrom(toks, i + 1, s)

\* s with v inserted before the first element greater than v.
RECURSIVE InsertSorted(_, _)
InsertSorted(s, v) ==
  IF Len(s) = 0 THEN <<v>>
  ELSE IF CharCode(v) < CharCode(Head(s)) THEN <<v>> \o s
       ELSE <<Head(s)>> \o InsertSorted(Tail(s), v)

\* Array.from(s).sort()
RECURSIVE Sort(_)
Sort(s) == IF Len(s) = 0 THEN <<>> ELSE InsertSorted(Sort(Tail(s)), Head(s))

usedVarsOf(toks) == Sort(SeenFrom(toks, 0, <<>>))

\* const usedVars = useMemo(...)
usedVars == usedVarsOf(tokens)

RECURSIVE Pow2(_)
Pow2(n) == IF n = 0 THEN 1 ELSE 2 * Pow2(n - 1)

\* A mutant of MaskBit: bit i is read, least significant bit first.
MaskBitLsbFirst(mask, n, i) == ((mask \div Pow2(i)) % 2) = 1

\* Boolean((mask >> (n - 1 - i)) & 1), i the 0-based position in usedVars.
MaskBit(mask, n, i) == ((mask \div Pow2(n - 1 - i)) % 2) = 1

\* The assignment of one row: { A: false, B: false, C: false } overwritten
\* by usedVars.forEach.
Assignment(uv, mask) ==
  [k \in Range(INPUTS) |->
     IF \E i \in 1..Len(uv) : uv[i] = k
     THEN MaskBit(mask, Len(uv), (CHOOSE i \in 1..Len(uv) : uv[i] = k) - 1)
     ELSE FALSE]

\* The sentinel a row carries when safeEvaluate throws (an em dash).
SENTINEL == [type |-> "string", value |-> "--"]

BoolResult(b) == [type |-> "boolean", value |-> b]

\* One row: { ...assignment, RESULT: val } or { ...assignment, RESULT: "--" }.
Row(toks, assignment) ==
  LET r == safeEvaluate(toks, assignment) IN
  [A |-> assignment["A"], B |-> assignment["B"], C |-> assignment["C"],
   RESULT |-> IF r.ok THEN BoolResult(r.val) ELSE SENTINEL]

\* A mutant of MaskOfRow: the masks are run through from total - 1 down to 0.
MaskOfRowDescending(m, total) == total - 1 - m

\* The mask of the row pushed m-th (0-based): for (mask = 0; mask < total; mask++).
MaskOfRow(m, total) == m

\* const total = 1 << n: the number of rows built.
TableRows(n) == Pow2(n)

truthTableOf(toks, show) ==
  LET uv == usedVarsOf(toks)
      n == Len(uv)
  IN IF ~show \/ n = 0 THEN <<>>
     ELSE [m \in 1..TableRows(n) |->
             Row(toks, Assignment(uv, MaskOfRow(m - 1, TableRows(n))))]

\* const truthTable = useMemo(...)
truthTable == truthTableOf(tokens, showTable)

Init ==
  /\ tokens = <<>>
  /\ env = [k \in Range(INPUTS) |-> FALSE]
  /\ showTable = FALSE

\* addToken(t), from a palette chip's onClick.
addToken ==
  /\ Len(tokens) < MaxTokens
  /\ \E t \in Palette : tokens' = Append(tokens, t)
  /\ UNCHANGED <<env, showTable>>

\* TokenChip onRemove: prev.filter((_, j) => j !== i).
removeToken ==
  /\ \E i \in 1..Len(tokens) :
       tokens' = SubSeq(tokens, 1, i - 1) \o SubSeq(tokens, i + 1, Len(tokens))
  /\ UNCHANGED <<env, showTable>>

\* The Clear button.
clearTokens ==
  /\ tokens' = <<>>
  /\ UNCHANGED <<env, showTable>>

\* An input button: setEnv((e) => ({ ...e, [k]: !e[k] })).
toggleInput ==
  /\ \E k \in Range(INPUTS) : env' = [env EXCEPT ![k] = ~env[k]]
  /\ UNCHANGED <<tokens, showTable>>

\* The Show/Hide Truth Table button.
toggleShowTable ==
  /\ showTable' = ~showTable
  /\ UNCHANGED <<tokens, env>>

\* handleDropAdd and handleReorderDrop place or move one token of the same
\* palette inside the lane; every sequence they build is built by addToken
\* and removeToken as well.
Next == addToken \/ removeToken \/ clearTokens \/ toggleInput \/ toggleShowTable

Spec == Init /\ [][Next]_vars

\* The lane being edited and the truth table switched on and off, the
\* inputs left as the App starts them.
NextTable == addToken \/ removeToken \/ clearTokens \/ toggleShowTable

SpecTable == Init /\ [][NextTable]_vars

(* ------------- well-formed expressions as inputs (SpecExpr) ------------ *)

\* toks is empty or ends where the grammar
\*   E ::= operand | NOT E | E AND E | E OR E | ( E )
\* goes on with an operand, a NOT or a "(".
ExpectsOperand(toks) ==
  Len(toks) = 0 \/ toks[Len(toks)].type \in {"OP", "LPAREN"}

\* The number of "(" of toks still open.
OpenParens(toks) ==
  Cardinality({i \in 1..Len(toks) : toks[i].type = "LPAREN"})
    - Cardinality({i \in 1..Len(toks) : toks[i].type = "RPAREN"})

\* toks followed by t is still the beginning of an expression of the grammar.
Continues(toks, t) ==
  IF ExpectsOperand(toks)
  THEN t.type = "VAR" \/ t = OpToken("!") \/ t = LPAREN
  ELSE \/ t = OpToken("&&")
       \/ t = OpToken("||")
       \/ t = RPAREN /\ OpenParens(toks) > 0

\* addToken(t) for a user who enters an expression of the grammar from left
\* to right.
addTokenOfExpression ==
  /\ Len(tokens) < MaxExprLen
  /\ \E t \in Palette : Continues(tokens, t) /\ tokens' = Append(tokens, t)
  /\ UNCHANGED <<env, showTable>>

\* The App while an expression of the grammar is entered and the inputs are
\* toggled.
NextExpr == addTokenOfExpression \/ toggleInput

SpecExpr == Init /\ [][NextExpr]_vars

(* ------------------ reference reading of an expression ----------------- *)

\* A recursive-descent reading of the grammar with NOT above AND above OR:
\*   Or ::= And (OR And)*   And ::= Not (AND Not)*
\*   Not ::= NOT Not | Atom  Atom ::= operand | ( Or )
\* Each parser returns [ok, val, pos]: pos is the 0-based index after the
\* part it read.
Fail == [ok |-> FALSE, val |-> FALSE, pos |-> 0]

Read(v, p) == [ok |-> TRUE, val |-> v, pos |-> p]

RefOperand(v, e) == CASE v = "TRUE" -> TRUE [] v = "FALSE" -> FALSE [] OTHER -> e[v]

IsOp(t, o) == t.type = "OP" /\ t.value = o

RECURSIVE ParseOr(_, _, _)
RECURSIVE ParseAnd(_, _, _)
RECURSIVE ParseNot(_, _, _)
RECURSIVE OrTail(_, _, _)
RECURSIVE AndTail(_, _, _)

ParseAtom(toks, i, e) ==
  LET t == At(toks, i) IN
  IF t.type = "VAR" THEN Read(RefOperand(t.value, e), i + 1)
  ELSE IF t.type = "LPAREN"
       THEN LET r == ParseOr(toks, i + 1, e) IN
            IF r.ok /\ At(toks, r.pos).type = "RPAREN"
            THEN Read(r.val, r.pos + 1)
            ELSE Fail
       ELSE Fail

ParseNot(toks, i, e) ==
  IF IsOp(At(toks, i), "!")
  THEN LET r == ParseNot(toks, i + 1, e) IN
       IF r.ok THEN Read(~r.val, r.pos) ELSE Fail
  ELSE ParseAtom(toks, i, e)

AndTail(toks, l, e) ==
  IF l.ok /\ IsOp(At(toks, l.pos), "&&")
  THEN LET r == ParseNot(toks, l.pos + 1, e) IN
       IF r.ok THEN AndTail(toks, Read(l.val /\ r.val, r.pos), e) ELSE Fail
  ELSE l

ParseAnd(toks, i, e) == AndTail(toks, ParseNot(toks, i, e), e)

OrTail(toks, l, e) ==
  IF l.ok /\ IsOp(At(toks, l.pos), "||")
  THEN LET r == ParseAnd(toks, l.pos + 1, e) IN
       IF r.ok THEN OrTail(toks, Read(l.val \/ r.val, r.pos), e) ELSE Fail
  ELSE l

ParseOr(toks, i, e) == OrTail(toks, ParseAnd(toks, i, e), e)

AllFalse == [k \in Range(INPUTS) |-> FALSE]

\* toks is a well-formed infix expression of the grammar.
WellFormed(toks) ==
  LET r == ParseOr(toks, 0, AllFalse) IN r.ok /\ r.pos = Len(toks)

tA == VarToken("A")
tB == VarToken("B")
tC == VarToken("C")
tAND == OpToken("&&")
tOR == OpToken("||")
tNOT == OpToken("!")

(* ------------------------------- C1 ------------------------------------ *)

\* C1: a well-formed infix expression evaluates, under every environment,
\* to a boolean and never to an error, and the boolean is the value of the
\* expression read with NOT above AND above OR; A || B && C gives what
\* A || ( B && C ) gives.
C1_WellFormedEvaluates ==
  /\ LET p == ParseOr(tokens, 0, env) IN
     (p.ok /\ p.pos = Len(tokens)) => result = Return(p.val)
  /\ tokens = <<tA, tOR, tB, tAND, tC>> =>
       result = safeEvaluate(<<tA, tOR, LPAREN, tB, tAND, tC, RPAREN>>, env)

\* C1 witness: A || B && C evaluated where ( A || B ) && C would differ.
C1_Witness ==
  /\ tokens = <<tA, tOR, tB, tAND, tC>>
  /\ env["A"] /\ ~env["C"]
  /\ WellFormed(tokens)
  /\ result = Return(TRUE)

(* ------------------------------- C2 ------------------------------------ *)

\* The row result safeEvaluate gives for the assignment a row shows.
RowResultOf(row) ==
  LET r == safeEvaluate(tokens, [A |-> row.A, B |-> row.B, C |-> row.C]) IN
  IF r.ok THEN BoolResult(r.val) ELSE SENTINEL

OnlyA == usedVars = <<"A">>

\* C2 as stated: with A the only free variable and the table shown, the
\* table has exactly 2 rows, A = true first and A = false second, each with
\* the result of evaluating under that row's assignment.
C2_TrueRowFirst ==
  (showTable /\ OnlyA) =>
    LET tt == truthTable IN
    /\ Len(tt) = 2
    /\ tt[1].A = TRUE /\ tt[2].A = FALSE
    /\ \A m \in 1..2 : tt[m].RESULT = RowResultOf(tt[m])

\* C2 amended: with A the only free variable and the table shown, the table
\* has exactly 2 rows, A = false first and A = true second (B and C false
\* in both), each with the boolean safeEvaluate returns under that row's
\* assignment, or the sentinel when it throws.
C2_FalseRowFirst ==
  (showTable /\ OnlyA) =>
    LET tt == truthTable IN
    /\ Len(tt) = 2
    /\ tt[1].A = FALSE /\ tt[2].A = TRUE
    /\ \A m \in 1..2 : ~tt[m].B /\ ~tt[m].C
    /\ \A m \in 1..2 : tt[m].RESULT = RowResultOf(tt[m])

\* C2 witness: the table of ! A, whose rows differ in their result.
C2_Witness ==
  /\ showTable
  /\ tokens = <<tNOT, tA>>
  /\ Len(truthTable) = 2
  /\ truthTable[1].RESULT = BoolResult(TRUE)
  /\ truthTable[2].RESULT = BoolResult(FALSE)

(* ------------------------------- C3 ------------------------------------ *)

\* Bit j of m.
Bit(m, j) == (m \div (CASE j = 0 -> 1 [] j = 1 -> 2 [] j = 2 -> 4)) % 2

\* 2^k for the k the three inputs allow.
RowsFor(k) == CASE k = 1 -> 2 [] k = 2 -> 4 [] k = 3 -> 8

\* The names of A, B, C occurring in tokens, in ascending order.
FreeVars ==
  SelectSeq(INPUTS, LAMBDA v : \E i \in 1..Len(tokens) : tokens[i] = VarToken(v))

\* The table has 2^k rows for the k free variables, row m (0-based) giving
\* the variable at position i (0-based) bit k-1-i of m and every other
\* input false, all assignments pairwise distinct; it is empty for k = 0.
TableShape ==
  LET fv == FreeVars
      k == Len(fv)
      tt == truthTable
      rows == Len(tt)
  IN
  /\ usedVars = fv
  /\ k = 0 => tt = <<>>
  /\ k >= 1 =>
       /\ rows = RowsFor(k)
       /\ \A m \in 1..rows :
            /\ \A i \in 1..k : tt[m][fv[i]] = (Bit(m - 1, k - i) = 1)
            /\ \A v \in Range(INPUTS) \ Range(fv) : tt[m][v] = FALSE
       /\ \A m1, m2 \in 1..rows :
            m1 # m2 =>
              <<tt[m1].A, tt[m1].B, tt[m1].C>> # <<tt[m2].A, tt[m2].B, tt[m2].C>>

\* C3 as stated: whatever the state of the App, the table has the shape
\* above.
C3_TableShapeAlways == TableShape

\* C3 amended: while the table is shown it has the shape above, for valid
\* and malformed token sequences alike; while it is hidden it is empty.
C3_TableShapeWhenShown ==
  /\ showTable => TableShape
  /\ ~showTable => truthTable = <<>>

\* C3 witness: a malformed sequence with three free variables, not in
\* alphabetical order, and its 8 rows.
C3_Witness ==
  /\ showTable
  /\ tokens = <<tC, tA, tB>>
  /\ Len(truthTable) = 8
  /\ truthTable[2].C /\ ~truthTable[2].A /\ ~truthTable[2].B
  /\ truthTable[2].RESULT = SENTINEL

(* ------------------------------- C4 ------------------------------------ *)

MissingOperator ==
  {"Missing operator between operands", "Missing operator between ) and next token"}

\* tokens[i], tokens[i + 1] (0-based) is a pair with the first token of a
\* type in xs and the second a Variable or a LeftParen.
PairAt(i, xs) ==
  /\ i + 1 < Len(tokens)
  /\ At(tokens, i).type \in xs
  /\ At(tokens, i + 1).type \in {"VAR", "LPAREN"}

\* C4 as stated: a Variable, LeftParen or RightParen directly followed by a
\* Variable or a LeftParen makes safeEvaluate return an error, and the
\* error is MissingOperator when no such pair and no other violation the
\* scan flags comes before it.
C4_AnyPairIsMissingOperator ==
  \A i \in 0..(Len(tokens) - 1) :
    PairAt(i, {"VAR", "LPAREN", "RPAREN"}) =>
      /\ ~result.ok
      /\ (\A j \in 0..(i - 1) :
            CheckAt(tokens, j) = "" /\ ~PairAt(j, {"VAR", "LPAREN", "RPAREN"}))
           => result.error \in MissingOperator

\* C4 amended: a Variable or RightParen directly followed by a Variable or
\* a LeftParen makes safeEvaluate return an error under every environment,
\* and the error is MissingOperator when the scan flags nothing at an
\* earlier index. (A LeftParen followed by a Variable or a LeftParen is
\* no violation.)
C4_OperandPairIsMissingOperator ==
  \A i \in 0..(Len(tokens) - 1) :
    PairAt(i, {"VAR", "RPAREN"}) =>
      /\ ~result.ok
      /\ (\A j \in 0..(i - 1) : CheckAt(tokens, j) = "")
           => result.error \in MissingOperator

\* C4 witness: ( A ) ( is rejected for the ")" "(" pair, the "(" "A" pair
\* before it being no violation.
C4_Witness ==
  /\ tokens = <<LPAREN, tA, RPAREN, LPAREN>>
  /\ result = Throw("Missing operator between ) and next token")

(* ------------------------------- C5 ------------------------------------ *)

\* C5: malformed input never evaluates: when safeEvaluate returns a
\* boolean, the token sequence is a well-formed infix expression.
C5_MalformedNeverEvaluates == result.ok => WellFormed(tokens)

(* ------------------------------- C6 ------------------------------------ *)

\* C6: validity does not depend on the environment: under any other
\* environment safeEvaluate returns a boolean too, or throws the same
\* error; and the rows of a truth table carry booleans throughout or the
\* sentinel throughout.
C6_ValidityIgnoresEnv ==
  LET r == result
      tt == truthTable
  IN
  /\ \A e2 \in Envs :
       LET r2 == safeEvaluate(tokens, e2) IN
       /\ r2.ok = r.ok
       /\ ~r.ok => r2.error = r.error
  /\ \/ \A m \in 1..Len(tt) : tt[m].RESULT.type = "boolean"
     \/ \A m \in 1..Len(tt) : tt[m].RESULT = SENTINEL

\* C6 witness: ( A && ) passes the scan and the converter and fails in
\* evalRPN, in both rows of its table alike.
C6_Witness ==
  /\ showTable
  /\ tokens = <<LPAREN, tA, tAND, RPAREN>>
  /\ result = Throw("Invalid AND placement")
  /\ Len(truthTable) = 2
  /\ \A m \in 1..2 : truthTable[m].RESULT = SENTINEL

(* ------------------------------- C7 ------------------------------------ *)

\* The number of tokens of type ty among the first n tokens.
RECURSIVE CountType(_, _)
CountType(n, ty) ==
  IF n = 0 THEN 0
  ELSE CountType(n - 1, ty) + (IF tokens[n].type = ty THEN 1 ELSE 0)

\* Some prefix holds more ")" than "(", or the whole holds more "(" than ")".
Unbalanced ==
  \/ \E n \in 1..Len(tokens) : CountType(n, "RPAREN") > CountType(n, "LPAREN")
  \/ CountType(Len(tokens), "LPAREN") > CountType(Len(tokens), "RPAREN")

\* C7: toRPN throws, and then "Mismatched parentheses", exactly when the
\* parentheses of its input are unbalanced; on every balanced input it
\* returns a postfix sequence.
C7_MismatchIffUnbalanced ==
  LET r == toRPN(tokens) IN
  /\ ~r.ok <=> Unbalanced
  /\ ~r.ok => r.error = "Mismatched parentheses"

\* C7 witness: A ) ( B has as many "(" as ")" and a prefix with more ")".
C7_Witness ==
  /\ tokens = <<tA, RPAREN, LPAREN, tB>>
  /\ toRPN(tokens) = Throw("Mismatched parentheses")

(* ------------------------------- C8 ------------------------------------ *)

\* Some NOT is directly followed by AND, OR or ")" or is the last token.
NotWithoutOperand ==
  \E i \in 0..(Len(tokens) - 1) :
    /\ IsOp(At(tokens, i), "!")
    /\ \/ i = Len(tokens) - 1
       \/ IsOp(At(tokens, i + 1), "&&")
       \/ IsOp(At(tokens, i + 1), "||")
       \/ At(tokens, i + 1).type = "RPAREN"

\* C8: a NOT directly followed by AND, OR or ")", or ending the sequence,
\* makes safeEvaluate return an error and never a boolean.
C8_NotNeedsOperand == NotWithoutOperand => ~result.ok

(* ------------------------------- C9 ------------------------------------ *)

\* The number of elements of s equal to t.
Occurrences(s, t) == Cardinality({i \in 1..Len(s) : s[i] = t})

IsVar(t) == t.type = "VAR"

IsParen(t) == t.type \in {"LPAREN", "RPAREN"}

C10_NoUnknownOperator ==
  LET r == toRPN(tokens) IN
  /\ \A e \in Envs : safeEvaluate(tokens, e) # Throw("Unknown operator")
  /\ r.ok => \A k \in 1..Len(r.val) :
               r.val[k].type = "VAR" \/ ValueOf(r.val[k]) \in Range(OPS)

\* C10 witness: ( ! A ) reaches evalRPN, which reads the operator.
C10_Witness ==
  /\ tokens = <<LPAREN, tNOT, tA, RPAREN>>
  /\ toRPN(tokens) = Return(<<tA, tNOT>>)
  /\ result = Return(TRUE)

====
